---- MODULE Spec2Model ----
(***************************************************************************)
(* ScrumMood back end: the emotion analysis and suggestion engine          *)
(* (SuggestionGenerator), the /generate route that persists and delivers   *)
(* its result, and the ingestion paths that store EmotionData rows.        *)
(*                                                                         *)
(* Numbers.  Intensities and confidences are decimals with one digit after *)
(* the point and are held as integers in tenths (0.7 is 7).  Thresholds    *)
(* are held in hundredths (0.65 is 65).  A mean or a fraction is the exact *)
(* rational [num, den]; a standard deviation is held as its square         *)
(* [num, den], and compared with the square of the threshold.              *)
(***************************************************************************)
EXTENDS Integers, Sequences, FiniteSets, TLC

VARIABLES
    emotions,       \* the observation batch handed to the engine (recent_emotions)
    suggestions,    \* the list returned by the last analyze_and_suggest
    rerun,          \* the list returned by a second invocation on the same batch
    reflection,     \* the result of generate_personal_reflection, <<>> before any
    clock,          \* datetime.utcnow()
    pc,             \* position of the driver: "collect", "analysed", "rerun", "generated"
    ai_suggestions, \* the committed rows of table ai_suggestions
    emitted,        \* the socket events emitted, in order
    response,       \* the HTTP status of the last request, 0 before any
    responses,      \* the number of respond_to_suggestion requests handled
    emotion_data,   \* the committed rows of table emotion_data
    request,        \* the last request or socket message handled, <<>> before any
    analysis_result, \* the estimate the last submit_emotion worked with, <<>> if none
    served,         \* the number of ingestion requests and messages handled
    team_reflection \* the body of the last team reflection answered, <<>> before any

engineVars == <<emotions, suggestions, rerun, reflection, clock, pc>>
routeVars == <<ai_suggestions, emitted, response, responses>>
ingestVars == <<emotion_data, request, analysis_result, served>>
vars == <<engineVars, routeVars, ingestVars, team_reflection>>

(***************************************************************************)
(* Bounds                                                                  *)
(***************************************************************************)
MaxBatch == 3
MaxRecent == 2
MaxClock == 1
MaxServed == 1
MaxResponses == 2
MaxStressed == 6
MaxNeutral == 4
MaxJourney == 5
MaxSession == 3

Users == {1, 2}
Intensities == {1, 7, 9}
BatchTypes == {"stressed", "neutral", "sad", "happy"}

(***************************************************************************)
(* models/emotion.py                                                       *)
(***************************************************************************)
EmotionType ==
    {"happy", "sad", "angry", "fear", "surprise", "disgust", "neutral",
     "stressed", "excited", "confused"}

AnalysisSource == {"text", "voice", "facial", "manual"}

\* One EmotionData row, as far as the engine reads it.
EmotionData(user_id, emotion_type, intensity, timestamp) ==
    [user_id |-> user_id, emotion_type |-> emotion_type, intensity |-> intensity,
     timestamp |-> timestamp]

(***************************************************************************)
(* Sequence helpers                                                        *)
(***************************************************************************)
RECURSIVE SumSeq(_)
SumSeq(s) == IF s = <<>> THEN 0 ELSE s[1] + SumSeq(Tail(s))

MapIntensity(s) == [i \in 1..Len(s) |-> s[i].intensity]

SumSquares(s) == SumSeq([i \in 1..Len(s) |-> s[i] * s[i]])

\* The keys of a dict filled in the order of s: first occurrences, in order.
RECURSIVE InsertionOrder(_)
InsertionOrder(s) ==
    IF s = <<>> THEN <<>>
    ELSE LET r == InsertionOrder(SubSeq(s, 1, Len(s) - 1))
             x == s[Len(s)]
         IN  IF \E i \in 1..Len(r) : r[i] = x THEN r ELSE Append(r, x)

Zero == [num |-> 0, den |-> 1]

\* Python's None in a column that holds a number
None == -1

\* r > thr/100
GT(r, thr) == r.num * 100 > thr * r.den

\* sqrt(v) > thr/100, v the squared deviation
StdevGT(v, thr) == v.num * 10000 > thr * thr * v.den

\* statistics.mean of intensities held in tenths
Mean(xs) == [num |-> SumSeq(xs), den |-> 10 * Len(xs)]

\* Mutant: statistics.pstdev, the population standard deviation.
Mutant_Stdev(xs) ==
    LET n == Len(xs)
        s == SumSeq(xs)
    IN  [num |-> n * SumSquares(xs) - s * s, den |-> 100 * n * n]

\* statistics.stdev (sample standard deviation, n - 1), squared
Stdev(xs) ==
    LET n == Len(xs)
        s == SumSeq(xs)
    IN  [num |-> n * SumSquares(xs) - s * s, den |-> 100 * n * (n - 1)]

(***************************************************************************)
(* SuggestionGenerator.thresholds                                          *)
(***************************************************************************)
stress_team_percentage == 30
negative_emotions_percentage == 40
low_energy_percentage == 60
emotional_volatility == 50
individual_stress_high == 65
individual_negative_high == 60
individual_low_energy == 70
individual_volatility == 40
\* Mutant: the break tier tested against the team threshold of 0.3.
Mutant_very_high_stress == stress_team_percentage
very_high_stress == 50
\* Mutant: the personal break tier starts at 0.9.
Mutant_personal_break_stress == individual_stress_high + 25
personal_break_stress == 80

\* suggestion_templates[type]['default_duration']
default_duration(type) ==
    CASE type = "break" -> 5
      [] type = "breathing" -> 2
      [] type = "energizer" -> 3
      [] type = "check_in" -> 0
      [] type = "discussion" -> 10
      [] type = "restructure" -> 0
      [] type = "personal_break" -> 5
      [] type = "stress_management" -> 2
      [] type = "engagement_boost" -> 0
      [] type = "emotional_regulation" -> 0
      [] type = "communication_adjustment" -> 0

(***************************************************************************)
(* SuggestionGenerator._get_dominant_emotion                               *)
(***************************************************************************)
CountOf(ems, t) == Cardinality({i \in 1..Len(ems) : ems[i].emotion_type = t})

\* Mutant: among the types of maximal count the last one of the dict wins.
Mutant_get_dominant_emotion(ems) ==
    IF ems = <<>> THEN "neutral"
    ELSE LET keys == InsertionOrder([i \in 1..Len(ems) |-> ems[i].emotion_type])
             best == CHOOSE i \in 1..Len(keys) :
                        /\ \A j \in 1..Len(keys) :
                              CountOf(ems, keys[j]) <= CountOf(ems, keys[i])
                        /\ \A j \in (i + 1)..Len(keys) :
                              CountOf(ems, keys[j]) < CountOf(ems, keys[i])
         IN  keys[best]

_get_dominant_emotion(ems) ==
    IF ems = <<>> THEN "neutral"
    ELSE LET keys == InsertionOrder([i \in 1..Len(ems) |-> ems[i].emotion_type])
             best == CHOOSE i \in 1..Len(keys) :
                        /\ \A j \in 1..Len(keys) :
                              CountOf(ems, keys[j]) <= CountOf(ems, keys[i])
                        /\ \A j \in 1..(i - 1) :
                              CountOf(ems, keys[j]) < CountOf(ems, keys[i])
         IN  keys[best]

(***************************************************************************)
(* SuggestionGenerator._analyze_emotions                                   *)
(***************************************************************************)
OfType(ems, types) == SelectSeq(ems, LAMBDA e : e.emotion_type \in types)

NegativeTypes == {"sad", "angry", "stressed"}

user_metric(user_emotions) ==
    LET user_stress_emotions == OfType(user_emotions, {"stressed"})
        avg_stress_intensity ==
            IF user_stress_emotions # <<>>
            THEN Mean(MapIntensity(user_stress_emotions)) ELSE Zero
        negative_percentage ==
            [num |-> Len(OfType(user_emotions, NegativeTypes)),
             den |-> Len(user_emotions)]
        neutral_percentage ==
            [num |-> Len(OfType(user_emotions, {"neutral"})),
             den |-> Len(user_emotions)]
        user_volatility ==
            IF Len(user_emotions) > 1
            THEN Stdev(MapIntensity(user_emotions)) ELSE Zero
    IN  [stress_level |-> avg_stress_intensity,
         negative_percentage |-> negative_percentage,
         neutral_percentage |-> neutral_percentage,
         emotional_volatility |-> user_volatility,
         emotion_count |-> Len(user_emotions),
         dominant_emotion |-> _get_dominant_emotion(user_emotions),
         needs_attention |->
            \/ GT(avg_stress_intensity, individual_stress_high)
            \/ GT(negative_percentage, individual_negative_high)
            \/ GT(neutral_percentage, individual_low_energy)
            \/ StdevGT(user_volatility, individual_volatility)]

\* Mutant: the team mean is taken without the guard for an empty list.
Mutant_analyze_emotions(ems) ==
    LET user_order == InsertionOrder([i \in 1..Len(ems) |-> ems[i].user_id])
        ids == {ems[i].user_id : i \in 1..Len(ems)}
        emotion_by_user ==
            [u \in ids |-> SelectSeq(ems, LAMBDA e : e.user_id = u)]
        user_metrics == [u \in ids |-> user_metric(emotion_by_user[u])]
        high_order ==
            SelectSeq(user_order,
                      LAMBDA u : GT(user_metrics[u].stress_level,
                                    individual_stress_high))
        intensities == MapIntensity(ems)
    IN  [total_emotions |-> Len(ems),
         unique_users |-> Cardinality(ids),
         stress_count |-> Len(OfType(ems, {"stressed"})),
         negative_count |-> Len(OfType(ems, NegativeTypes)),
         neutral_count |-> Len(OfType(ems, {"neutral"})),
         negative_percentage |->
            IF ems # <<>>
            THEN [num |-> Len(OfType(ems, NegativeTypes)), den |-> Len(ems)]
            ELSE Zero,
         low_energy_percentage |->
            IF ems # <<>>
            THEN [num |-> Len(OfType(ems, {"neutral"})), den |-> Len(ems)]
            ELSE Zero,
         high_stress_users |->
            [i \in 1..Len(high_order) |->
                [user_id |-> high_order[i],
                 stress_level |-> user_metrics[high_order[i]].stress_level,
                 emotion_count |-> user_metrics[high_order[i]].emotion_count]],
         emotional_volatility |->
            IF Len(intensities) > 1 THEN Stdev(intensities) ELSE Zero,
         average_intensity |->
            Mean(intensities),
         user_metrics |-> user_metrics,
         user_order |-> user_order]

_analyze_emotions(ems) ==
    LET user_order == InsertionOrder([i \in 1..Len(ems) |-> ems[i].user_id])
        ids == {ems[i].user_id : i \in 1..Len(ems)}
        emotion_by_user ==
            [u \in ids |-> SelectSeq(ems, LAMBDA e : e.user_id = u)]
        user_metrics == [u \in ids |-> user_metric(emotion_by_user[u])]
        high_order ==
            SelectSeq(user_order,
                      LAMBDA u : GT(user_metrics[u].stress_level,
                                    individual_stress_high))
        intensities == MapIntensity(ems)
    IN  [total_emotions |-> Len(ems),
         unique_users |-> Cardinality(ids),
         stress_count |-> Len(OfType(ems, {"stressed"})),
         negative_count |-> Len(OfType(ems, NegativeTypes)),
         neutral_count |-> Len(OfType(ems, {"neutral"})),
         negative_percentage |->
            IF ems # <<>>
            THEN [num |-> Len(OfType(ems, NegativeTypes)), den |-> Len(ems)]
            ELSE Zero,
         low_energy_percentage |->
            IF ems # <<>>
            THEN [num |-> Len(OfType(ems, {"neutral"})), den |-> Len(ems)]
            ELSE Zero,
         high_stress_users |->
            [i \in 1..Len(high_order) |->
                [user_id |-> high_order[i],
                 stress_level |-> user_metrics[high_order[i]].stress_level,
                 emotion_count |-> user_metrics[high_order[i]].emotion_count]],
         emotional_volatility |->
            IF Len(intensities) > 1 THEN Stdev(intensities) ELSE Zero,
         average_intensity |->
            IF intensities # <<>> THEN Mean(intensities) ELSE Zero,
         user_metrics |-> user_metrics,
         user_order |-> user_order]

(***************************************************************************)
(* SuggestionGenerator._create_suggestion, _create_personal_suggestion     *)
(***************************************************************************)
_create_suggestion(suggestion_type, priority, trigger_emotions, affected_users, now) ==
    [type |-> suggestion_type,
     priority |-> priority,
     duration |-> default_duration(suggestion_type),
     trigger_emotions |->
        [total_emotions |-> trigger_emotions.total_emotions,
         negative_percentage |-> trigger_emotions.negative_percentage,
         stress_count |-> trigger_emotions.stress_count,
         emotional_volatility |-> trigger_emotions.emotional_volatility],
     affected_users |-> affected_users,
     timestamp |-> now,
     is_personal |-> FALSE]

\* Mutant: the time of the invocation also lands in the trigger snapshot.
Mutant_create_personal_suggestion(suggestion_type, user_id, metrics, priority, now) ==
    [type |-> suggestion_type,
     priority |-> priority,
     duration |-> default_duration(suggestion_type),
     trigger_emotions |->
        [stress_level |-> metrics.stress_level,
         negative_percentage |-> metrics.negative_percentage,
         neutral_percentage |-> metrics.neutral_percentage,
         emotional_volatility |-> metrics.emotional_volatility,
         dominant_emotion |-> metrics.dominant_emotion,
         analysis_timestamp |-> now],
     affected_users |-> <<user_id>>,
     user_id |-> user_id,
     timestamp |-> now,
     is_personal |-> TRUE]

_create_personal_suggestion(suggestion_type, user_id, metrics, priority, now) ==
    [type |-> suggestion_type,
     priority |-> priority,
     duration |-> default_duration(suggestion_type),
     trigger_emotions |->
        [stress_level |-> metrics.stress_level,
         negative_percentage |-> metrics.negative_percentage,
         neutral_percentage |-> metrics.neutral_percentage,
         emotional_volatility |-> metrics.emotional_volatility,
         dominant_emotion |-> metrics.dominant_emotion],
     affected_users |-> <<user_id>>,
     user_id |-> user_id,
     timestamp |-> now,
     is_personal |-> TRUE]

(***************************************************************************)
(* SuggestionGenerator._generate_*_suggestions                             *)
(***************************************************************************)
HighStressIds(analysis) ==
    [i \in 1..Len(analysis.high_stress_users) |->
        analysis.high_stress_users[i].user_id]

\* Mutant: the two tiers are tested one after the other, not as if / else.
Mutant_generate_stress_suggestions(analysis, now) ==
    LET stress_percentage ==
            IF analysis.total_emotions > 0
            THEN [num |-> analysis.stress_count, den |-> analysis.total_emotions]
            ELSE Zero
        break ==
            IF GT(stress_percentage, very_high_stress)
            THEN <<_create_suggestion("break", 3, analysis,
                                      HighStressIds(analysis), now)>>
            ELSE <<>>
        breathing ==
            IF GT(stress_percentage, stress_team_percentage)
            THEN <<_create_suggestion("breathing", 2, analysis,
                                      HighStressIds(analysis), now)>>
            ELSE <<>>
        check ==
            IF Len(analysis.high_stress_users) > 0
            THEN <<_create_suggestion("check_in", 2, analysis,
                                      HighStressIds(analysis), now)>>
            ELSE <<>>
    IN  break \o breathing \o check

_generate_stress_suggestions(analysis, now) ==
    LET stress_percentage ==
            IF analysis.total_emotions > 0
            THEN [num |-> analysis.stress_count, den |-> analysis.total_emotions]
            ELSE Zero
        team ==
            IF GT(stress_percentage, stress_team_percentage)
            THEN IF GT(stress_percentage, very_high_stress)
                 THEN <<_create_suggestion("break", 3, analysis,
                                           HighStressIds(analysis), now)>>
                 ELSE <<_create_suggestion("breathing", 2, analysis,
                                           HighStressIds(analysis), now)>>
            ELSE <<>>
        check ==
            IF Len(analysis.high_stress_users) > 0
            THEN <<_create_suggestion("check_in", 2, analysis,
                                      HighStressIds(analysis), now)>>
            ELSE <<>>
    IN  team \o check

\* Mutant: affected_users copied from the stress rule.
Mutant_generate_energy_suggestions(analysis, now) ==
    IF GT(analysis.low_energy_percentage, low_energy_percentage)
    THEN <<_create_suggestion("energizer", 2, analysis, HighStressIds(analysis), now)>>
    ELSE <<>>

_generate_energy_suggestions(analysis, now) ==
    IF GT(analysis.low_energy_percentage, low_energy_percentage)
    THEN <<_create_suggestion("energizer", 2, analysis, analysis.user_order, now)>>
    ELSE <<>>

\* Mutant: the discussion is created with priority 2.
Mutant_generate_support_suggestions(analysis, now) ==
    IF GT(analysis.negative_percentage, negative_emotions_percentage)
    THEN <<_create_suggestion("discussion", 2, analysis, analysis.user_order, now)>>
    ELSE <<>>

_generate_support_suggestions(analysis, now) ==
    IF GT(analysis.negative_percentage, negative_emotions_percentage)
    THEN <<_create_suggestion("discussion", 3, analysis, analysis.user_order, now)>>
    ELSE <<>>

_generate_stability_suggestions(analysis, now) ==
    IF StdevGT(analysis.emotional_volatility, emotional_volatility)
    THEN <<_create_suggestion("restructure", 2, analysis, analysis.user_order, now)>>
    ELSE <<>>

\* The suggestion of one user of user_metrics, as a list of zero or one entry.
individual_suggestion(user_id, metrics, now) ==
    IF ~metrics.needs_attention THEN <<>>
    ELSE IF GT(metrics.stress_level, individual_stress_high)
    THEN <<_create_personal_suggestion(
              IF GT(metrics.stress_level, personal_break_stress)
              THEN "personal_break" ELSE "stress_management",
              user_id, metrics,
              IF GT(metrics.stress_level, personal_break_stress) THEN 3 ELSE 2,
              now)>>
    ELSE IF GT(metrics.neutral_percentage, individual_low_energy)
    THEN <<_create_personal_suggestion("engagement_boost", user_id, metrics, 2, now)>>
    ELSE IF StdevGT(metrics.emotional_volatility, individual_volatility)
    THEN <<_create_personal_suggestion("emotional_regulation", user_id, metrics, 2, now)>>
    ELSE IF GT(metrics.negative_percentage, individual_negative_high)
    THEN <<_create_personal_suggestion("communication_adjustment", user_id, metrics, 2, now)>>
    ELSE <<>>

RECURSIVE Flatten(_)
Flatten(ss) == IF ss = <<>> THEN <<>> ELSE ss[1] \o Flatten(Tail(ss))

\* Mutant: the personal suggestions are cut to the first.
Mutant_generate_individual_suggestions(analysis, now) ==
    LET all == Flatten([i \in 1..Len(analysis.user_order) |->
                           individual_suggestion(analysis.user_order[i],
                                                 analysis.user_metrics[analysis.user_order[i]],
                                                 now)])
    IN  SubSeq(all, 1, IF Len(all) < 1 THEN Len(all) ELSE 1)

_generate_individual_suggestions(analysis, now) ==
    Flatten([i \in 1..Len(analysis.user_order) |->
                individual_suggestion(analysis.user_order[i],
                                      analysis.user_metrics[analysis.user_order[i]],
                                      now)])

(***************************************************************************)
(* SuggestionGenerator._prioritize_suggestions                             *)
(***************************************************************************)
RECURSIVE UniqueByType(_)
UniqueByType(s) ==
    IF s = <<>> THEN <<>>
    ELSE LET r == UniqueByType(SubSeq(s, 1, Len(s) - 1))
             x == s[Len(s)]
         IN  IF \E i \in 1..Len(r) : r[i].type = x.type THEN r ELSE Append(r, x)

\* list.sort(key=priority, reverse=True): stable, higher priority first
SortByPriority(s) ==
    LET n == Len(s)
        rank(i) ==
            1 + Cardinality({j \in 1..n :
                                \/ s[j].priority > s[i].priority
                                \/ s[j].priority = s[i].priority /\ j < i})
    IN  [k \in 1..n |-> s[CHOOSE i \in 1..n : rank(i) = k]]

_prioritize_suggestions(s) == SortByPriority(UniqueByType(s))

(***************************************************************************)
(* SuggestionGenerator.analyze_and_suggest                                 *)
(***************************************************************************)
\* Everything generated, before the team part is prioritized and cut.
Candidates(ems, now) ==
    LET analysis == _analyze_emotions(ems)
    IN  (IF analysis.high_stress_users # <<>>
         THEN _generate_stress_suggestions(analysis, now) ELSE <<>>)
        \o (IF GT(analysis.low_energy_percentage, low_energy_percentage)
            THEN _generate_energy_suggestions(analysis, now) ELSE <<>>)
        \o (IF GT(analysis.negative_percentage, negative_emotions_percentage)
            THEN _generate_support_suggestions(analysis, now) ELSE <<>>)
        \o (IF StdevGT(analysis.emotional_volatility, emotional_volatility)
            THEN _generate_stability_suggestions(analysis, now) ELSE <<>>)
        \o _generate_individual_suggestions(analysis, now)

\* Mutant: the cut is one entry late.
Mutant_TopTwo(s) == SubSeq(s, 1, IF Len(s) < 3 THEN Len(s) ELSE 3)

TopTwo(s) == SubSeq(s, 1, IF Len(s) < 2 THEN Len(s) ELSE 2)

analyze_and_suggest(ems, now) ==
    IF ems = <<>> THEN <<>>
    ELSE LET all == Candidates(ems, now)
             team_suggestions ==
                _prioritize_suggestions(SelectSeq(all, LAMBDA s : ~s.is_personal))
             personal_suggestions == SelectSeq(all, LAMBDA s : s.is_personal)
         IN  TopTwo(team_suggestions) \o personal_suggestions

(***************************************************************************)
(* SuggestionGenerator.generate_personal_reflection.  emotional_stability  *)
(* is 1 - stdev of the user's intensities; the summary holds the stdev,    *)
(* squared, as intensity_dispersion.                                       *)
(***************************************************************************)
TypesOf(ems) == {ems[i].emotion_type : i \in 1..Len(ems)}

\* Mutant: the percentages are taken of the whole list, not of the user's.
Mutant_emotion_distribution(user_emotions, ems) ==
    [t \in TypesOf(user_emotions) |->
        [num |-> CountOf(user_emotions, t) * 100, den |-> Len(ems)]]

\* {emotion: (count / total_emotions) * 100}
emotion_distribution(user_emotions, ems) ==
    [t \in TypesOf(user_emotions) |->
        [num |-> CountOf(user_emotions, t) * 100, den |-> Len(user_emotions)]]

\* Mutant: only an empty list is answered with "no data".
Mutant_UserEmotions(ems, user_id) == ems

UserEmotions(ems, user_id) == SelectSeq(ems, LAMBDA e : e.user_id = user_id)

\* sorted(user_emotions, key=lambda e: e.timestamp): a stable sort
RECURSIVE SortByTimestamp(_)
SortByTimestamp(s) ==
    IF s = <<>> THEN <<>>
    ELSE LET r == SortByTimestamp(SubSeq(s, 1, Len(s) - 1))
             x == s[Len(s)]
             k == Cardinality({i \in 1..Len(r) : r[i].timestamp <= x.timestamp})
         IN  SubSeq(r, 1, k) \o <<x>> \o SubSeq(r, k + 1, Len(r))

\* 1 - sqrt(v) > thr/100 and 1 - sqrt(v) < thr/100, v the squared deviation
StabilityGT(v, thr) == v.num * 10000 < (100 - thr) * (100 - thr) * v.den
StabilityLT(v, thr) == StdevGT(v, 100 - thr)

\* emotions[:len(emotions)//3] and emotions[-len(emotions)//3:]; the unary
\* minus binds tighter than //, so the start index is floor(-n / 3).
first_third(ems) == SubSeq(ems, 1, Len(ems) \div 3)
last_third(ems) ==
    LET start == (0 - Len(ems)) \div 3
    IN  SubSeq(ems, Len(ems) + start + 1, Len(ems))

\* sentences of _generate_personal_insights and _generate_personal_action_items
stable_sentence ==
    "Your emotions remained quite stable throughout the session, suggesting good emotional regulation."
fluctuated_sentence ==
    "Your emotions fluctuated significantly during the session, which may indicate strong reactions to different discussion points."
improved_sentence ==
    "Your emotional state appeared to improve as the session progressed, suggesting effective engagement or resolution of concerns."
declined_sentence ==
    "Your emotional state appeared to decline as the session progressed, which might indicate growing concerns or fatigue."
mindfulness_item ==
    "Practice mindfulness techniques to help maintain emotional balance during challenging discussions."
closing_item ==
    "Set a personal goal for how you want to feel and participate in the next session."

dominant_insight(dominant_emotion) ==
    IF dominant_emotion = "happy"
    THEN <<"You maintained a positive emotional state throughout most of the session, which likely contributed to a constructive atmosphere.">>
    ELSE IF dominant_emotion = "neutral"
    THEN <<"You maintained a balanced emotional state during the session, which may indicate focused attention or reserved engagement.">>
    ELSE IF dominant_emotion = "stressed"
    THEN <<"You experienced elevated stress levels during this session. Consider what specific topics or interactions triggered this response.">>
    ELSE IF dominant_emotion = "sad"
    THEN <<"You expressed sadness during parts of this session. Reflecting on the causes may help address underlying concerns.">>
    ELSE IF dominant_emotion = "angry"
    THEN <<"You experienced frustration or anger during this session. Consider what specific issues triggered these emotions and how they might be addressed constructively.">>
    ELSE <<>>

\* Mutant: the stable sentence needs emotional_stability > 0.85.
Mutant_stability_insight(dispersion) ==
    IF StabilityGT(dispersion, 85)
    THEN <<stable_sentence>>
    ELSE IF StabilityLT(dispersion, 50)
    THEN <<fluctuated_sentence>>
    ELSE <<>>

stability_insight(dispersion) ==
    IF StabilityGT(dispersion, 80)
    THEN <<stable_sentence>>
    ELSE IF StabilityLT(dispersion, 50)
    THEN <<fluctuated_sentence>>
    ELSE <<>>

trend_insight(ems) ==
    IF Len(ems) >= 3
    THEN LET first_negative_count == Len(OfType(first_third(ems), NegativeTypes))
             last_negative_count == Len(OfType(last_third(ems), NegativeTypes))
         IN  IF first_negative_count > last_negative_count
             THEN <<improved_sentence>>
             ELSE IF first_negative_count < last_negative_count
             THEN <<declined_sentence>>
             ELSE <<>>
    ELSE <<>>

participation_insight(ems) ==
    IF Len(ems) > 5
    THEN <<"Your consistent emotional tracking suggests active engagement throughout the session.">>
    ELSE IF Len(ems) < 3
    THEN <<"Limited emotional data was collected, which may indicate periods of disengagement or technical issues.">>
    ELSE <<>>

\* emotional_stability is passed as the dispersion it is 1 minus
_generate_personal_insights(dominant_emotion, dispersion, ems) ==
    dominant_insight(dominant_emotion) \o stability_insight(dispersion)
        \o trend_insight(ems) \o participation_insight(ems)

dominant_action_items(dominant_emotion) ==
    IF dominant_emotion = "happy"
    THEN <<"Share what aspects of the session you found most positive to help maintain this environment in future meetings.">>
    ELSE IF dominant_emotion = "neutral"
    THEN <<"Reflect on what would increase your engagement and enthusiasm in future sessions.">>
    ELSE IF dominant_emotion = "stressed"
    THEN <<"Identify specific stressors from this session and develop strategies to manage them in future meetings.",
           "Consider discussing workload or deadline concerns with your team lead if these were contributing factors.">>
    ELSE IF dominant_emotion = "sad"
    THEN <<"Take time to process any disappointing news or outcomes from the session.",
           "Consider speaking with a team lead or trusted colleague about any concerns.">>
    ELSE IF dominant_emotion = "angry"
    THEN <<"Identify specific triggers for your frustration and consider constructive ways to address these issues.",
           "Practice communication techniques that help express concerns without escalating tension.">>
    ELSE <<>>

stability_action_items(dispersion) ==
    IF StabilityLT(dispersion, 50)
    THEN <<mindfulness_item>>
    ELSE <<>>

general_action_items ==
    <<closing_item>>

\* Mutant: the list is returned uncapped.
Mutant_FirstThree(action_items) == action_items

\* action_items[:3]
FirstThree(action_items) ==
    SubSeq(action_items, 1, IF Len(action_items) < 3 THEN Len(action_items) ELSE 3)

_generate_personal_action_items(dominant_emotion, dispersion) ==
    FirstThree(dominant_action_items(dominant_emotion)
                  \o stability_action_items(dispersion) \o general_action_items)

emotion_journey(sorted_emotions) ==
    [i \in 1..Len(sorted_emotions) |->
        [timestamp |-> sorted_emotions[i].timestamp,
         emotion |-> sorted_emotions[i].emotion_type,
         intensity |-> sorted_emotions[i].intensity]]

generate_personal_reflection(user_id, session_id, ems, now) ==
    IF ems = <<>>
    THEN [user_id |-> user_id, session_id |-> session_id, has_data |-> FALSE,
          message |-> "Not enough emotion data was collected to generate a reflection."]
    ELSE LET user_emotions == UserEmotions(ems, user_id)
             sorted_emotions == SortByTimestamp(user_emotions)
             intensities == MapIntensity(user_emotions)
             dispersion == IF Len(intensities) > 1 THEN Stdev(intensities) ELSE Zero
             dominant_emotion == _get_dominant_emotion(user_emotions)
         IN  IF user_emotions = <<>>
             THEN [user_id |-> user_id, session_id |-> session_id, has_data |-> FALSE,
                   message |-> "No emotion data was collected for this user."]
             ELSE [user_id |-> user_id, session_id |-> session_id, has_data |-> TRUE,
                   emotion_summary |->
                      [total_emotions_tracked |-> Len(user_emotions),
                       dominant_emotion |-> dominant_emotion,
                       emotion_distribution |-> emotion_distribution(user_emotions, ems),
                       intensity_dispersion |-> dispersion,
                       average_intensity |-> Mean(intensities)],
                   emotion_journey |-> emotion_journey(sorted_emotions),
                   insights |->
                      _generate_personal_insights(dominant_emotion, dispersion,
                                                  sorted_emotions),
                   action_items |->
                      _generate_personal_action_items(dominant_emotion, dispersion),
                   generated_at |-> now]

(***************************************************************************)
(* The engine driven by a caller: observations arrive, the engine is       *)
(* invoked on the batch, and invoked again on the same batch later.        *)
(***************************************************************************)
Init ==
    /\ emotions = <<>>
    /\ suggestions = <<>>
    /\ rerun = <<>>
    /\ reflection = <<>>
    /\ clock = 0
    /\ pc = "collect"
    /\ ai_suggestions = <<>>
    /\ emitted = <<>>
    /\ response = 0
    /\ responses = 0
    /\ emotion_data = <<>>
    /\ request = <<>>
    /\ analysis_result = <<>>
    /\ served = 0
    /\ team_reflection = <<>>

Observations == {EmotionData(u, t, x, 0) : u \in Users, t \in BatchTypes, x \in Intensities}

\* timestamp defaults to the time of insertion: rows stored one after the
\* other, and read back in that order, carry increasing timestamps.
Stored(ems, e) == Append(ems, [e EXCEPT !.timestamp = Len(ems) + 1])

\* The engine only compares user ids for equality, so the users of a batch
\* are numbered in the order of their first observation.
NextObservations(ems) ==
    {e \in Observations :
        \A v \in Users : v < e.user_id => \E i \in 1..Len(ems) : ems[i].user_id = v}

\* One more observation is in the batch the caller will pass.
Observe ==
    /\ pc = "collect"
    /\ Len(emotions) < MaxBatch
    /\ \E e \in NextObservations(emotions) : emotions' = Stored(emotions, e)
    /\ UNCHANGED <<reflection, suggestions, rerun, clock, pc, routeVars, ingestVars, team_reflection>>

\* The same, for the specifications that follow the batch further: an
\* observation of the session is stored and falls in the 5 minute window.
ObserveRecent ==
    /\ pc \in {"collect", "generated"}
    /\ Len(emotions) < MaxRecent
    /\ \E e \in NextObservations(emotions) : emotions' = Stored(emotions, e)
    /\ pc' = "collect"
    /\ UNCHANGED <<reflection, suggestions, rerun, clock, routeVars, ingestVars, team_reflection>>

\* A whole batch arrives at once: one user's run of stressed observations and
\* the other users' neutral observations, in either order.
StressedRuns == UNION {[1..n -> {7, 9}] : n \in (MaxStressed - 1)..MaxStressed}
NeutralRuns == [1..MaxNeutral -> {2, 3}]

ScenarioBatch(xs, us, stressed_first) ==
    LET stressed == [i \in 1..Len(xs) |-> EmotionData(1, "stressed", xs[i], 0)]
        neutral == [i \in 1..Len(us) |-> EmotionData(us[i], "neutral", 1, 0)]
        batch == IF stressed_first THEN stressed \o neutral ELSE neutral \o stressed
    IN  [i \in 1..Len(batch) |-> [batch[i] EXCEPT !.timestamp = i]]

ObserveScenario ==
    /\ pc = "collect"
    /\ emotions = <<>>
    /\ \E xs \in StressedRuns, us \in NeutralRuns, stressed_first \in BOOLEAN :
          emotions' = ScenarioBatch(xs, us, stressed_first)
    /\ UNCHANGED <<reflection, suggestions, rerun, clock, pc, routeVars, ingestVars, team_reflection>>

\* The rows of one user's session as the reflection routes query them: no
\* order_by, so the list need not be in the order of the timestamps.
JourneyTypes == {"stressed", "angry", "neutral"}
Timestamps == {1, 2}

ObserveJourney ==
    /\ pc = "collect"
    /\ Len(emotions) < MaxJourney
    /\ \E t \in JourneyTypes, ts \in Timestamps :
          emotions' = Append(emotions, EmotionData(1, t, 5, ts))
    /\ UNCHANGED <<reflection, suggestions, rerun, clock, pc, routeVars, ingestVars, team_reflection>>

\* The rows of one user's session, of mixed intensities, in stored order.
SessionTypes == {"stressed", "angry", "neutral", "excited"}
SessionIntensities == {1, 6, 8, 9}

ObserveSession ==
    /\ pc = "collect"
    /\ Len(emotions) < MaxSession
    /\ \E t \in SessionTypes, x \in SessionIntensities :
          emotions' = Stored(emotions, EmotionData(1, t, x, 0))
    /\ UNCHANGED <<reflection, suggestions, rerun, clock, pc, routeVars, ingestVars, team_reflection>>

\* A batch the route stores in full: one user reports a negative and then a
\* positive emotion, so a discussion is suggested and no user is flagged.
StorableBatches ==
    {<<EmotionData(1, t, x, 1), EmotionData(1, "happy", x, 2)>> :
        t \in {"sad", "angry", "stressed"}, x \in {1, 5}}

ObserveStorable ==
    /\ pc = "collect"
    /\ emotions = <<>>
    /\ \E batch \in StorableBatches : emotions' = batch
    /\ UNCHANGED <<reflection, suggestions, rerun, clock, pc, routeVars, ingestVars, team_reflection>>

\* A caller asks for the reflection of one user on the batch.
Reflect ==
    /\ pc \in {"collect", "analysed"}
    /\ reflection = <<>>
    /\ \E user_id \in Users :
          reflection' = <<generate_personal_reflection(user_id, 1, emotions, clock)>>
    /\ pc' = IF pc = "collect" THEN "reflected" ELSE pc
    /\ UNCHANGED <<emotions, suggestions, rerun, clock, routeVars, ingestVars, team_reflection>>

\* Time passes.
Tick ==
    /\ clock < MaxClock
    /\ clock' = clock + 1
    /\ UNCHANGED <<reflection, emotions, suggestions, rerun, pc, routeVars, ingestVars, team_reflection>>

\* Mutant: the engine consumes the list it is given.
Mutant_Analyze ==
    /\ pc = "collect"
    /\ suggestions' = analyze_and_suggest(emotions, clock)
    /\ emotions' = SubSeq(emotions, 1, Len(emotions) - 1)
    /\ pc' = "analysed"
    /\ UNCHANGED <<reflection, rerun, clock, routeVars, ingestVars, team_reflection>>

Analyze ==
    /\ pc = "collect"
    /\ suggestions' = analyze_and_suggest(emotions, clock)
    /\ pc' = "analysed"
    /\ UNCHANGED <<reflection, emotions, rerun, clock, routeVars, ingestVars, team_reflection>>

Reanalyze ==
    /\ pc = "analysed"
    /\ rerun' = analyze_and_suggest(emotions, clock)
    /\ pc' = "rerun"
    /\ UNCHANGED <<reflection, emotions, suggestions, clock, routeVars, ingestVars, team_reflection>>

(***************************************************************************)
(* models/suggestion.py, suggestion_engine/routes.py: POST /generate       *)
(***************************************************************************)
SuggestionType ==
    {"break", "discussion", "breathing", "energizer", "check_in", "restructure",
     "support"}

Sessions == {1}
SessionIds == {0, 1, 2}     \* 0: no session_id in the request; 2: no such session

\* The AISuggestion row built from one entry of the engine's result.
AISuggestion(id, session_id, suggestion_data) ==
    [id |-> id,
     session_id |-> session_id,
     suggestion_type |-> suggestion_data.type,
     priority |-> suggestion_data.priority,
     trigger_emotions |-> suggestion_data.trigger_emotions,
     affected_users |-> suggestion_data.affected_users,
     suggested_duration |-> suggestion_data.duration,
     status |-> "pending",
     responded_at |-> None,
     responded_by |-> None,
     effectiveness_rating |-> None,
     feedback_notes |-> ""]

\* socketio.emit(event, {...: rows}, room=room)
Emit(event, room, rows) == [event |-> event, room |-> room, data |-> rows]

\* The events of one committed /generate: the team rows to the session room,
\* then each target user's rows to that user's room.
GenerateEvents(session_id, result, rows) ==
    LET team_idx == SelectSeq([i \in 1..Len(result) |-> i],
                              LAMBDA i : ~result[i].is_personal)
        pers_idx == SelectSeq([i \in 1..Len(result) |-> i],
                              LAMBDA i : result[i].is_personal)
        targets == InsertionOrder([k \in 1..Len(pers_idx) |-> result[pers_idx[k]].user_id])
        of_user(u) == SelectSeq(pers_idx, LAMBDA i : result[i].user_id = u)
    IN  (IF team_idx # <<>>
         THEN <<Emit("new_suggestions", <<"session", session_id>>,
                     [k \in 1..Len(team_idx) |-> rows[team_idx[k]]])>>
         ELSE <<>>)
        \o [k \in 1..Len(targets) |->
               Emit("new_personal_suggestions", <<"user", targets[k]>>,
                    [j \in 1..Len(of_user(targets[k])) |-> rows[of_user(targets[k])[j]]])]

\* Mutant: each valid row is committed as it is added.
Mutant_generate_suggestions ==
    /\ pc = "collect"
    /\ pc' = "generated"
    /\ \E session_id \in SessionIds :
          IF session_id = 0
          THEN /\ response' = 400
               /\ UNCHANGED <<suggestions, ai_suggestions, emitted>>
          ELSE IF session_id \notin Sessions
          THEN /\ response' = 404
               /\ UNCHANGED <<suggestions, ai_suggestions, emitted>>
          ELSE IF emotions = <<>>
          THEN /\ response' = 200
               /\ UNCHANGED <<suggestions, ai_suggestions, emitted>>
          ELSE \E result \in {analyze_and_suggest(emotions, clock)}, commit_raises \in BOOLEAN :
               \E rows \in {[i \in 1..Len(result) |->
                               AISuggestion(Len(ai_suggestions) + i, session_id, result[i])]} :
                   /\ suggestions' = result
                   /\ IF \E i \in 1..Len(result) : result[i].type \notin SuggestionType
                      THEN /\ response' = 500
                           /\ ai_suggestions' =
                                 ai_suggestions \o SelectSeq(rows,
                                    LAMBDA row : row.suggestion_type \in SuggestionType)
                           /\ UNCHANGED emitted
                      ELSE IF commit_raises
                      THEN /\ response' = 500
                           /\ UNCHANGED <<ai_suggestions, emitted>>
                      ELSE /\ ai_suggestions' = ai_suggestions \o rows
                           /\ emitted' = emitted \o GenerateEvents(session_id, result, rows)
                           /\ response' = 201
    /\ UNCHANGED <<reflection, emotions, rerun, clock, responses, ingestVars, team_reflection>>

generate_suggestions ==
    /\ pc = "collect"
    /\ pc' = "generated"
    /\ \E session_id \in SessionIds :
          IF session_id = 0
          THEN /\ response' = 400
               /\ UNCHANGED <<suggestions, ai_suggestions, emitted>>
          ELSE IF session_id \notin Sessions
          THEN /\ response' = 404
               /\ UNCHANGED <<suggestions, ai_suggestions, emitted>>
          ELSE IF emotions = <<>>
          THEN /\ response' = 200
               /\ UNCHANGED <<suggestions, ai_suggestions, emitted>>
          ELSE \E result \in {analyze_and_suggest(emotions, clock)}, commit_raises \in BOOLEAN :
               \E rows \in {[i \in 1..Len(result) |->
                               AISuggestion(Len(ai_suggestions) + i, session_id, result[i])]} :
                   /\ suggestions' = result
                   /\ IF \E i \in 1..Len(result) : result[i].type \notin SuggestionType
                      THEN \* SuggestionType(...) raises ValueError: rollback
                           /\ response' = 500
                           /\ UNCHANGED <<ai_suggestions, emitted>>
                      ELSE IF commit_raises
                      THEN \* db.session.commit() raises: rollback
                           /\ response' = 500
                           /\ UNCHANGED <<ai_suggestions, emitted>>
                      ELSE /\ ai_suggestions' = ai_suggestions \o rows
                           /\ emitted' = emitted \o GenerateEvents(session_id, result, rows)
                           /\ response' = 201
    /\ UNCHANGED <<reflection, emotions, rerun, clock, responses, ingestVars, team_reflection>>

(***************************************************************************)
(* suggestion_engine/routes.py: POST /<suggestion_id>/respond              *)
(***************************************************************************)
SuggestionStatus == {"pending", "accepted", "dismissed", "implemented"}

\* "": the request has no 'response'; rating 0 and feedback "": none given
Responses == {"", "accept", "dismiss", "implement", "later"}
Ratings == {0, 3, 7}
Feedbacks == {"", "helpful"}

\* Mutant: a dismissal puts the suggestion back to pending.
Mutant_StatusOf(resp) ==
    CASE resp = "accept" -> "accepted"
      [] resp = "dismiss" -> "pending"
      [] resp = "implement" -> "implemented"

StatusOf(resp) ==
    CASE resp = "accept" -> "accepted"
      [] resp = "dismiss" -> "dismissed"
      [] resp = "implement" -> "implemented"

\* the row after the handler's assignments
Responded(suggestion, current_user_id, resp, rating, feedback, now) ==
    [suggestion EXCEPT
        !.status = StatusOf(resp),
        !.responded_at = now,
        !.responded_by = current_user_id,
        !.feedback_notes = IF feedback # "" THEN feedback ELSE @,
        !.effectiveness_rating = IF rating # 0 THEN rating ELSE @]

respond_to_suggestion ==
    /\ pc \in {"generated", "responded"}
    /\ responses < MaxResponses
    /\ responses' = responses + 1
    /\ pc' = "responded"
    /\ \E suggestion_id \in {1, Len(ai_suggestions) + 1}, current_user_id \in Users,
          resp \in Responses, rating \in Ratings, feedback \in Feedbacks :
          /\ request' = [suggestion_id |-> suggestion_id, response |-> resp]
          /\ IF suggestion_id \notin 1..Len(ai_suggestions)
             THEN /\ response' = 404
                  /\ UNCHANGED <<ai_suggestions, emitted>>
             ELSE IF resp \notin {"accept", "dismiss", "implement"}
             THEN /\ response' = 400
                  /\ UNCHANGED <<ai_suggestions, emitted>>
             ELSE \E suggestion \in {Responded(ai_suggestions[suggestion_id], current_user_id,
                                               resp, rating, feedback, clock)} :
                  /\ ai_suggestions' = [ai_suggestions EXCEPT ![suggestion_id] = suggestion]
                  /\ emitted' = Append(emitted,
                         LET is_personal == /\ Len(suggestion.affected_users) = 1
                                            /\ suggestion.affected_users[1] = current_user_id
                         IN  Emit("suggestion_update",
                                  IF is_personal THEN <<"user", current_user_id>>
                                  ELSE <<"session", suggestion.session_id>>,
                                  <<[suggestion_id |-> suggestion_id,
                                     status |-> suggestion.status,
                                     responded_by |-> current_user_id,
                                     is_personal |-> is_personal]>>))
                  /\ response' = 200
    /\ UNCHANGED <<reflection, emotions, suggestions, rerun, clock, emotion_data,
                   analysis_result, served, team_reflection>>

(***************************************************************************)
(* emotion_monitor/emotion_analyzer.py.  Features, intensities and         *)
(* confidences of the ingestion paths are held in hundredths (0.5 is 50).  *)
(***************************************************************************)
RequiredKeys == {"emotion", "intensity", "confidence", "sentiment_score"}

\* What the external classifier call does: it raises, or returns a text that
\* is no JSON, or JSON that is no object, or a JSON object with some keys.
ClassifierOutcome(kind, keys, emotion, intensity, confidence) ==
    [kind |-> kind,
     keys |-> keys,
     emotion |-> IF "emotion" \in keys THEN emotion ELSE "",
     intensity |-> IF "intensity" \in keys THEN intensity ELSE 0,
     confidence |-> IF "confidence" \in keys THEN confidence ELSE 0,
     sentiment_score |-> IF "sentiment_score" \in keys THEN 30 ELSE 0]

NoOutcome == ClassifierOutcome("none", {}, "", 0, 0)

ClassifierOutcomes ==
    {ClassifierOutcome(k, {}, "", 0, 0) : k \in {"raise", "not_json", "not_object"}}
    \cup {ClassifierOutcome("object", K, e, i, c) :
             K \in SUBSET RequiredKeys, e \in {"happy", "furious"},
             i \in {50, 150}, c \in {90, 150}}

FallbackEstimate ==
    [emotion |-> "neutral", intensity |-> 50, confidence |-> 10,
     sentiment_score |-> 0,
     metadata |-> [error |-> TRUE, analyzer_version |-> "Fallback-1.0"]]

\* Mutant: only a failed call or an unparseable text is caught.
Mutant_analyze_text(outcome) ==
    IF outcome.kind \in {"object", "not_object"}
    THEN [emotion |-> IF "emotion" \in outcome.keys THEN outcome.emotion ELSE "neutral",
          intensity |-> IF "intensity" \in outcome.keys THEN outcome.intensity ELSE 50,
          confidence |-> IF "confidence" \in outcome.keys THEN outcome.confidence ELSE 50,
          sentiment_score |->
             IF "sentiment_score" \in outcome.keys THEN outcome.sentiment_score ELSE 0,
          metadata |-> [error |-> FALSE, analyzer_version |-> "Gemini-1.0"]]
    ELSE FallbackEstimate

analyze_text(outcome) ==
    IF outcome.kind = "object"
    THEN [emotion |-> IF "emotion" \in outcome.keys THEN outcome.emotion ELSE "neutral",
          intensity |-> IF "intensity" \in outcome.keys THEN outcome.intensity ELSE 50,
          confidence |-> IF "confidence" \in outcome.keys THEN outcome.confidence ELSE 50,
          sentiment_score |->
             IF "sentiment_score" \in outcome.keys THEN outcome.sentiment_score ELSE 0,
          metadata |-> [error |-> FALSE, analyzer_version |-> "Gemini-1.0"]]
    ELSE FallbackEstimate

\* features.get(key, 0.5)
Feature(features, key) == IF key \in DOMAIN features THEN features[key] ELSE 50

Min(a, b) == IF a < b THEN a ELSE b

analyze_voice(audio_features) ==
    LET pitch == Feature(audio_features, "pitch")
        energy == Feature(audio_features, "energy")
        speaking_rate == Feature(audio_features, "speaking_rate")
    IN  [emotion |->
            IF energy > 80 /\ pitch > 70
            THEN IF speaking_rate > 60 THEN "excited" ELSE "happy"
            ELSE IF energy < 30 /\ pitch < 40 THEN "sad"
            ELSE IF speaking_rate > 80 /\ energy > 60 THEN "stressed"
            ELSE "neutral",
         intensity |->
            IF energy > 80 /\ pitch > 70 THEN Min(energy, 90)
            ELSE IF energy < 30 /\ pitch < 40 THEN 100 - energy
            ELSE IF speaking_rate > 80 /\ energy > 60 THEN (speaking_rate * 8) \div 10
            ELSE 50,
         confidence |-> 70,
         metadata |-> [error |-> FALSE, analyzer_version |-> "1.0.0"]]

\* Mutant: the angry rule is tried before the sad rule.
Mutant_analyze_facial(facial_features) ==
    LET smile_score == Feature(facial_features, "smile")
        eyebrow_position == Feature(facial_features, "eyebrow_position")
        eye_openness == Feature(facial_features, "eye_openness")
    IN  [emotion |->
            IF smile_score > 70 THEN "happy"
            ELSE IF eyebrow_position < 20 THEN "angry"
            ELSE IF eyebrow_position < 30 /\ eye_openness < 40 THEN "sad"
            ELSE "neutral",
         intensity |->
            IF smile_score > 70 THEN smile_score
            ELSE IF eyebrow_position < 20 THEN 100 - eyebrow_position
            ELSE IF eyebrow_position < 30 /\ eye_openness < 40 THEN 100 - eye_openness
            ELSE 50,
         confidence |-> 80,
         metadata |-> [error |-> FALSE, analyzer_version |-> "1.0.0"]]

analyze_facial(facial_features) ==
    LET smile_score == Feature(facial_features, "smile")
        eyebrow_position == Feature(facial_features, "eyebrow_position")
        eye_openness == Feature(facial_features, "eye_openness")
    IN  [emotion |->
            IF smile_score > 70 THEN "happy"
            ELSE IF eyebrow_position < 30 /\ eye_openness < 40 THEN "sad"
            ELSE IF eyebrow_position < 20 THEN "angry"
            ELSE "neutral",
         intensity |->
            IF smile_score > 70 THEN smile_score
            ELSE IF eyebrow_position < 30 /\ eye_openness < 40 THEN 100 - eye_openness
            ELSE IF eyebrow_position < 20 THEN 100 - eyebrow_position
            ELSE 50,
         confidence |-> 80,
         metadata |-> [error |-> FALSE, analyzer_version |-> "1.0.0"]]

(***************************************************************************)
(* emotion_monitor/routes.py: POST /submit                                 *)
(***************************************************************************)
FeatureValues == {-100, 10, 90}
VoiceKeys == {"pitch", "energy", "speaking_rate"}
FacialKeys == {"smile", "eyebrow_position", "eye_openness"}
PartialFeatures(keys) == UNION {[K -> FeatureValues] : K \in SUBSET keys}
NoFeatures == [k \in {} |-> 0]

SubmitRequest(user_id, has_content, source, session_id, emotion_type, has_intensity, intensity, features, classifier) ==
    [kind |-> "submit", user_id |-> user_id, has_content |-> has_content,
     source |-> source, session_id |-> session_id, emotion_type |-> emotion_type,
     has_intensity |-> has_intensity, intensity |-> intensity,
     features |-> features, classifier |-> classifier]

SubmitRequests ==
    UNION {
        {SubmitRequest(u, c, src, sid, "", FALSE, 0, NoFeatures, NoOutcome) :
            src \in {"", "bogus"}}
        \cup {SubmitRequest(u, c, "text", sid, "", FALSE, 0, NoFeatures, o) :
                o \in ClassifierOutcomes}
        \cup {SubmitRequest(u, c, "voice", sid, "", FALSE, 0, f, NoOutcome) :
                f \in PartialFeatures(VoiceKeys)}
        \cup {SubmitRequest(u, c, "facial", sid, "", FALSE, 0, f, NoOutcome) :
                f \in PartialFeatures(FacialKeys)}
        \cup {SubmitRequest(u, c, "manual", sid, t, FALSE, 0, NoFeatures, NoOutcome) :
                t \in {"", "happy", "stressed", "bogus"}}
        \cup {SubmitRequest(u, c, "manual", sid, t, TRUE, x, NoFeatures, NoOutcome) :
                t \in {"", "happy", "stressed", "bogus"}, x \in {-50, 0, 50, 100, 150}}
        : u \in {1}, c \in BOOLEAN, sid \in SessionIds}

\* analysis_result of a request that passed the checks before the analysis
Estimate(req) ==
    CASE req.source = "text" -> analyze_text(req.classifier)
      [] req.source = "voice" -> analyze_voice(req.features)
      [] req.source = "facial" -> analyze_facial(req.features)
      [] req.source = "manual" ->
            [emotion |-> req.emotion_type, intensity |-> req.intensity,
             confidence |-> 100]

EmotionRow(id, user_id, session_id, emotion_type, intensity, confidence, source, session_timestamp) ==
    [id |-> id, user_id |-> user_id, session_id |-> session_id,
     emotion_type |-> emotion_type, intensity |-> intensity,
     confidence |-> confidence, source |-> source,
     session_timestamp |-> session_timestamp]

\* session.actual_start of the one session
actual_start(session_id) == 0

Rejected(status) ==
    /\ response' = status
    /\ UNCHANGED <<emotion_data, emitted>>

submit_emotion ==
    /\ served < MaxServed
    /\ served' = served + 1
    /\ \E req \in SubmitRequests :
        /\ request' = req
        /\ IF ~req.has_content \/ req.source = ""
           THEN Rejected(400) /\ analysis_result' = <<>>
           ELSE IF req.source \notin AnalysisSource
           THEN Rejected(400) /\ analysis_result' = <<>>
           ELSE IF req.session_id # 0 /\ req.session_id \notin Sessions
           THEN Rejected(404) /\ analysis_result' = <<>>
           ELSE IF /\ req.source = "manual"
                   /\ (req.emotion_type = "" \/ ~req.has_intensity \/ req.intensity = 0)
           THEN Rejected(400) /\ analysis_result' = <<>>
           ELSE \E result \in {Estimate(req)} :
                /\ analysis_result' = <<result>>
                /\ IF result.emotion \notin EmotionType
                   THEN Rejected(400)
                   ELSE IF req.session_id = 0
                   THEN \* `session` was never assigned: UnboundLocalError, rollback
                        Rejected(500)
                   ELSE \E row \in {EmotionRow(Len(emotion_data) + 1, req.user_id,
                                               req.session_id, result.emotion,
                                               result.intensity, result.confidence,
                                               req.source,
                                               clock - actual_start(req.session_id))} :
                        /\ emotion_data' = Append(emotion_data, row)
                        /\ emitted' = Append(emitted,
                               Emit("emotion_update", <<"session", req.session_id>>, <<row>>))
                        /\ response' = 201
    /\ UNCHANGED <<engineVars, ai_suggestions, responses, team_reflection>>

(***************************************************************************)
(* emotion_monitor/socket_events.py: the emotion_update socket message     *)
(***************************************************************************)
\* One entry of the message's emotions list; an absent intensity or
\* confidence is read as 1.0.
EmotionEntry(emotion_type, has_intensity, intensity, has_confidence, confidence) ==
    [emotion_type |-> emotion_type,
     has_intensity |-> has_intensity,
     intensity |-> IF has_intensity THEN intensity ELSE 0,
     has_confidence |-> has_confidence,
     confidence |-> IF has_confidence THEN confidence ELSE 0]

EmotionEntries ==
    {EmotionEntry("bogus", FALSE, 0, FALSE, 0)}
    \cup {EmotionEntry("happy", hi, i, hc, 150) :
             hi \in BOOLEAN, i \in {50, 150}, hc \in BOOLEAN}

EmotionLists ==
    {<<>>} \cup {<<a>> : a \in EmotionEntries}
           \cup {<<a, b>> : a \in EmotionEntries, b \in EmotionEntries}

\* user_id 0: neither the message nor the socket names a user; session_id 0: none
EmotionUpdates ==
    {[kind |-> "emotion_update", session_id |-> sid, user_id |-> u,
      emotions |-> l, source |-> src] :
        sid \in {0, 1}, u \in {0, 1}, l \in EmotionLists,
        src \in {"", "bogus", "facial"}}

\* Mutant: the entries are stored without the conversion to EmotionType.
Mutant_AllEntries(emos) == SelectSeq(emos, LAMBDA emo : TRUE)

\* Mutant: a message with an invalid entry is dropped whole.
Mutant_ValidEntries(emos) ==
    IF \A i \in 1..Len(emos) : emos[i].emotion_type \in EmotionType THEN emos ELSE <<>>

ValidEntries(emos) == SelectSeq(emos, LAMBDA emo : emo.emotion_type \in EmotionType)

\* the records built from the entries with a known emotion type
Records(msg) ==
    LET valid == ValidEntries(msg.emotions)
    IN  [i \in 1..Len(valid) |->
            EmotionRow(Len(emotion_data) + i, msg.user_id, msg.session_id,
                       valid[i].emotion_type,
                       IF valid[i].has_intensity THEN valid[i].intensity ELSE 100,
                       IF valid[i].has_confidence THEN valid[i].confidence ELSE 100,
                       msg.source, None)]

handle_emotion_update ==
    /\ served < MaxServed
    /\ served' = served + 1
    /\ \E msg \in EmotionUpdates :
        /\ request' = msg
        /\ IF msg.session_id = 0 \/ msg.user_id = 0 \/ msg.emotions = <<>> \/ msg.source = ""
           THEN /\ emitted' = Append(emitted, Emit("error", <<"all">>, <<>>))
                /\ UNCHANGED emotion_data
           ELSE IF ValidEntries(msg.emotions) # <<>> /\ msg.source \notin AnalysisSource
           THEN \* AnalysisSource(source) raises ValueError: rollback
                /\ emitted' = Append(emitted, Emit("error", <<"all">>, <<>>))
                /\ UNCHANGED emotion_data
           ELSE \E records \in {Records(msg)} :
                /\ emotion_data' = emotion_data \o records
                /\ emitted' = Append(emitted,
                       Emit("emotion_update", <<"session", msg.session_id>>, records))
    /\ UNCHANGED <<engineVars, ai_suggestions, response, responses, analysis_result, team_reflection>>

(***************************************************************************)
(* The facial classifier on its own: feature values on both sides of, and  *)
(* on, each threshold of analyze_facial.                                   *)
(***************************************************************************)
FacialValues == {10, 20, 25, 30, 40, 70, 90}
FacialFeatures == UNION {[K -> FacialValues] : K \in SUBSET FacialKeys}

\* emotion_analyzer.analyze_facial(data.get('facial_features', {}))
classify_facial ==
    /\ analysis_result = <<>>
    /\ \E facial_features \in FacialFeatures :
          /\ request' = [source |-> "facial", features |-> facial_features]
          /\ analysis_result' = <<analyze_facial(facial_features)>>
    /\ UNCHANGED <<engineVars, routeVars, emotion_data, served, team_reflection>>

(***************************************************************************)
(* reflection/routes.py: GET /team/<session_id>                            *)
(***************************************************************************)
\* getattr(e, name, default) on a row
getattr(e, name, default) == IF name \in DOMAIN e THEN e[name] ELSE default

\* reflection/routes.py _get_dominant_emotion: counts the rows' attribute
\* 'emotion', skipping the rows where it is None.
routes_get_dominant_emotion(ems) ==
    IF ems = <<>> THEN "neutral"
    ELSE LET found == SelectSeq([i \in 1..Len(ems) |-> getattr(ems[i], "emotion", None)],
                                LAMBDA emotion : emotion # None)
             keys == InsertionOrder(found)
             Count(k) == Cardinality({i \in 1..Len(found) : found[i] = k})
             best == CHOOSE i \in 1..Len(keys) :
                        /\ \A j \in 1..Len(keys) : Count(keys[j]) <= Count(keys[i])
                        /\ \A j \in 1..(i - 1) : Count(keys[j]) < Count(keys[i])
         IN  IF keys # <<>> THEN keys[best] ELSE "neutral"

\* models/user.py UserRole; session 1 exists and user 1 facilitates it, and
\* every user is a participant of it, participant.id being the user's id.
UserRole == {"member", "facilitator", "manager"}
facilitator_id == 1

participant_insights(ems) ==
    LET present == SelectSeq([i \in 1..Cardinality(Users) |-> i],
                             LAMBDA u : UserEmotions(ems, u) # <<>>)
    IN  [i \in 1..Len(present) |->
            [participant_id |-> present[i],
             emotion_count |-> Len(UserEmotions(ems, present[i])),
             dominant_emotion |-> routes_get_dominant_emotion(UserEmotions(ems, present[i]))]]

\* GET /team/<session_id>
get_team_reflection ==
    /\ pc = "collect"
    /\ team_reflection = <<>>
    /\ \E session_id \in {1, 2}, current_user_id \in Users, role \in UserRole :
          IF session_id \notin Sessions
          THEN response' = 404 /\ team_reflection' = <<[error |-> "Session not found"]>>
          ELSE IF facilitator_id # current_user_id /\ role \notin {"facilitator", "manager"}
          THEN /\ response' = 403
               /\ team_reflection' =
                     <<[error |-> "You do not have permission to view team reflections"]>>
          ELSE /\ response' = 200
               /\ team_reflection' =
                     <<[session_id |-> session_id,
                        participant_count |-> Cardinality(Users),
                        emotion_count |-> Len(emotions),
                        participant_insights |-> participant_insights(emotions)]>>
    /\ UNCHANGED <<engineVars, ai_suggestions, emitted, responses, ingestVars>>

Next == Observe \/ Analyze

Spec == Init /\ [][Next]_vars

NextRerun == ObserveRecent \/ Tick \/ Analyze \/ Reanalyze

SpecRerun == Init /\ [][NextRerun]_vars

NextGenerate == ObserveRecent \/ generate_suggestions

SpecGenerate == Init /\ [][NextGenerate]_vars

NextIngest == submit_emotion \/ handle_emotion_update

SpecIngest == Init /\ [][NextIngest]_vars

NextReflect == Observe \/ Reflect

SpecReflect == Init /\ [][NextReflect]_vars

NextEngine == ObserveRecent \/ Tick \/ Analyze \/ Reflect \/ Reanalyze

SpecEngine == Init /\ [][NextEngine]_vars

NextScenario == ObserveScenario \/ Analyze

SpecScenario == Init /\ [][NextScenario]_vars

NextJourney == ObserveJourney \/ Reflect

SpecJourney == Init /\ [][NextJourney]_vars

NextSession == ObserveSession \/ Reflect

SpecSession == Init /\ [][NextSession]_vars

NextTeam == Observe \/ get_team_reflection

SpecTeam == Init /\ [][NextTeam]_vars

NextFacial == classify_facial

SpecFacial == Init /\ [][NextFacial]_vars

NextStatus == ObserveStorable \/ generate_suggestions \/ respond_to_suggestion

SpecStatus == Init /\ [][NextStatus]_vars

NextRespond == ObserveRecent \/ generate_suggestions \/ respond_to_suggestion

SpecRespond == Init /\ [][NextRespond]_vars

(***************************************************************************)
(* Vocabulary of the properties                                            *)
(***************************************************************************)
TeamPart(res) == SelectSeq(res, LAMBDA s : ~s.is_personal)
PersonalPart(res) == SelectSeq(res, LAMBDA s : s.is_personal)
HasTeam(res, type) == \E i \in 1..Len(res) : res[i].type = type /\ ~res[i].is_personal
HasPersonal(res, type) == \E i \in 1..Len(res) : res[i].type = type /\ res[i].is_personal
PersonalOf(res, u) == SelectSeq(res, LAMBDA s : s.is_personal /\ s.user_id = u)
Unstamped(res) == [i \in 1..Len(res) |-> [res[i] EXCEPT !.timestamp = 0]]

BatchUsers == {emotions[i].user_id : i \in 1..Len(emotions)}
StressedOf(u) ==
    SelectSeq(emotions, LAMBDA e : e.user_id = u /\ e.emotion_type = "stressed")

\* the stress fraction f = stressed_count / total of the batch, against n/d
StressedCount == Cardinality({i \in 1..Len(emotions) : emotions[i].emotion_type = "stressed"})
FractionAbove(n, d) == StressedCount * d > n * Len(emotions)

\* some user's mean stressed intensity is above 0.65
SomeHighStressUser ==
    \E u \in BatchUsers :
        /\ StressedOf(u) # <<>>
        /\ 100 * SumSeq(MapIntensity(StressedOf(u))) > 65 * 10 * Len(StressedOf(u))

Analysed == pc = "analysed" /\ emotions # <<>>

ExpectedPersonalType(m) ==
    IF m.stress_level.num * 100 > 65 * m.stress_level.den
    THEN IF m.stress_level.num * 100 > 80 * m.stress_level.den
         THEN "personal_break" ELSE "stress_management"
    ELSE IF m.neutral_percentage.num * 10 > 7 * m.neutral_percentage.den
    THEN "engagement_boost"
    ELSE IF m.emotional_volatility.num * 100 > 16 * m.emotional_volatility.den
    THEN "emotional_regulation"
    ELSE IF m.negative_percentage.num * 10 > 6 * m.negative_percentage.den
    THEN "communication_adjustment"
    ELSE "none"

C2_OnePersonalSuggestionPerFlaggedUser ==
    Analysed =>
        LET metrics == _analyze_emotions(emotions).user_metrics
        IN  /\ \A u \in BatchUsers :
                  IF metrics[u].needs_attention
                  THEN /\ Len(PersonalOf(suggestions, u)) = 1
                       /\ PersonalOf(suggestions, u)[1].type =
                             ExpectedPersonalType(metrics[u])
                  ELSE PersonalOf(suggestions, u) = <<>>
            /\ Len(PersonalPart(suggestions)) =
                  Cardinality({u \in BatchUsers : metrics[u].needs_attention})

C2_Witness ==
    /\ Analysed
    /\ HasPersonal(suggestions, "communication_adjustment")
    /\ HasPersonal(suggestions, "emotional_regulation")

(***************************************************************************)
(* C3: the team part of the result has at most 2 entries, no two of the    *)
(* same type, and is the first two of the team candidates deduplicated by  *)
(* type (first occurrence kept) and stably sorted by descending priority.  *)
(***************************************************************************)
FirstOfType(cand, j) == \A k \in 1..(j - 1) : cand[k].type # cand[j].type

\* cand[j] comes before cand[k] in the deduplicated, stably sorted order
Before(cand, j, k) ==
    \/ cand[j].priority > cand[k].priority
    \/ cand[j].priority = cand[k].priority /\ j < k

C3_TeamPartIsTopTwo ==
    Analysed =>
        LET team == Unstamped(TeamPart(suggestions))
            cand == Unstamped(TeamPart(Candidates(emotions, clock)))
            firsts == {j \in 1..Len(cand) : FirstOfType(cand, j)}
            pos(i) == CHOOSE j \in firsts : cand[j] = team[i]
        IN  /\ Len(team) <= 2
            /\ Len(team) = IF Cardinality(firsts) < 2 THEN Cardinality(firsts) ELSE 2
            /\ \A i, k \in 1..Len(team) : i # k => team[i].type # team[k].type
            /\ \A i \in 1..Len(team) : \E j \in firsts : cand[j] = team[i]
            /\ \A i \in 1..Len(team) :
                  /\ \A k \in 1..(i - 1) : Before(cand, pos(k), pos(i))
                  /\ \A j \in firsts :
                        (\A k \in 1..Len(team) : pos(k) # j) => Before(cand, pos(i), j)

C3_Witness ==
    /\ Analysed
    /\ Len(TeamPart(Candidates(emotions, clock))) = 4
    /\ Len(TeamPart(suggestions)) = 2
    /\ TeamPart(suggestions)[1].type = "discussion"

(***************************************************************************)
(* C8: a suggestion emitted with is_personal = true has exactly one        *)
(* affected user, the user it was generated for; one emitted with          *)
(* is_personal = false has a non-empty affected_users list.                *)
(***************************************************************************)
C8_AffectedUsersCardinality ==
    Analysed =>
        \A i \in 1..Len(suggestions) :
            IF suggestions[i].is_personal
            THEN /\ suggestions[i].affected_users = <<suggestions[i].user_id>>
                 /\ suggestions[i].user_id \in BatchUsers
            ELSE /\ Len(suggestions[i].affected_users) >= 1
                 /\ \A k \in 1..Len(suggestions[i].affected_users) :
                       suggestions[i].affected_users[k] \in BatchUsers

C8_Witness ==
    /\ Analysed
    /\ HasTeam(suggestions, "energizer")
    /\ ~SomeHighStressUser
    /\ PersonalPart(suggestions) # <<>>

(***************************************************************************)
(* C9 (as stated): every team suggestion affects more than one             *)
(* participant, so a suggestion has exactly one affected user iff it is    *)
(* personal.                                                               *)
(***************************************************************************)
C9_OneAffectedUserIffPersonal ==
    Analysed =>
        \A i \in 1..Len(suggestions) :
            (Len(suggestions[i].affected_users) = 1) <=> suggestions[i].is_personal

LastRows ==
    SubSeq(ai_suggestions, Len(ai_suggestions) - Len(suggestions) + 1,
           Len(ai_suggestions))

PersistedInFull ==
    /\ Len(ai_suggestions) >= Len(suggestions)
    /\ \A i \in 1..Len(suggestions) :
          /\ LastRows[i].suggestion_type = suggestions[i].type
          /\ LastRows[i].priority = suggestions[i].priority
          /\ LastRows[i].affected_users = suggestions[i].affected_users

Delivered(i, room) ==
    \E k \in 1..Len(emitted) :
        /\ emitted[k].room = room
        /\ \E j \in 1..Len(emitted[k].data) :
              emitted[k].data[j] = LastRows[i]

C4_ResultPersistedAndDelivered ==
    (pc = "generated" /\ response \notin {400, 404} /\ emotions # <<>>) =>
        /\ response = 201
        /\ PersistedInFull
        /\ \A i \in 1..Len(suggestions) :
              IF suggestions[i].is_personal
              THEN Delivered(i, <<"user", suggestions[i].user_id>>)
              ELSE Delivered(i, <<"session", 1>>)

(***************************************************************************)
(* C6 (as stated): every EmotionData row stored by any ingestion path has  *)
(* intensity in [0,1] and confidence in [0,1], whatever the caller or the  *)
(* external classifier supplied.                                           *)
(***************************************************************************)
C6_StoredIntensityAndConfidenceInRange ==
    \A i \in 1..Len(emotion_data) :
        /\ 0 <= emotion_data[i].intensity /\ emotion_data[i].intensity <= 100
        /\ 0 <= emotion_data[i].confidence /\ emotion_data[i].confidence <= 100

(***************************************************************************)
(* C10 (as stated): a manual submit_emotion request with an emotion_type   *)
(* of the enum and an intensity in [0,1] (0 included) is recorded with     *)
(* that type, that intensity and confidence 1.0; it is rejected with a     *)
(* validation error, nothing recorded, exactly when emotion_type or        *)
(* intensity is missing.                                                   *)
(***************************************************************************)
ManualRequest ==
    /\ request # <<>>
    /\ request.kind = "submit"
    /\ request.source = "manual"
    /\ request.has_content
    /\ request.session_id \in Sessions

C10_ManualPassthrough ==
    [][(served' = served + 1 /\ ManualRequest') =>
        /\ (/\ request'.emotion_type \in EmotionType
            /\ request'.has_intensity
            /\ 0 <= request'.intensity /\ request'.intensity <= 100)
              => /\ response' = 201
                 /\ Len(emotion_data') = Len(emotion_data) + 1
                 /\ SubSeq(emotion_data', 1, Len(emotion_data)) = emotion_data
                 /\ emotion_data'[Len(emotion_data')].emotion_type = request'.emotion_type
                 /\ emotion_data'[Len(emotion_data')].intensity = request'.intensity
                 /\ emotion_data'[Len(emotion_data')].confidence = 100
        /\ (request'.emotion_type \in EmotionType \cup {""})
              => ((response' = 400 /\ emotion_data' = emotion_data)
                    <=> (request'.emotion_type = "" \/ ~request'.has_intensity))
    ]_vars

(***************************************************************************)
(* C7 (as stated): analyze_text never propagates an exception; whenever    *)
(* the classifier call fails or its response is malformed (not parseable   *)
(* as a JSON object carrying emotion, intensity, confidence and            *)
(* sentiment_score) it returns the fallback estimate neutral, 0.5, 0.1,    *)
(* 0.0 with an error marker in metadata.                                   *)
(***************************************************************************)
\* the last request was a text submission that reached the analysis
TextAnalysed ==
    /\ request # <<>>
    /\ request.kind = "submit"
    /\ request.source = "text"
    /\ analysis_result # <<>>

IsFallback(est) ==
    /\ est.emotion = "neutral"
    /\ est.intensity = 50
    /\ est.confidence = 10
    /\ est.sentiment_score = 0
    /\ est.metadata.error

C7_FallbackOnFailureOrMalformed ==
    TextAnalysed =>
        ((request.classifier.kind # "object"
            \/ ~(RequiredKeys \subseteq request.classifier.keys))
          => IsFallback(analysis_result[1]))

(***************************************************************************)
(* C7 (amended): analyze_text never propagates an exception; whenever the  *)
(* classifier call fails or its response is not parseable as a JSON object *)
(* it returns the fallback estimate neutral, 0.5, 0.1, 0.0 with an error   *)
(* marker; a JSON object is never treated as malformed: each key it lacks  *)
(* takes its default (emotion neutral, intensity 0.5, confidence 0.5,      *)
(* sentiment_score 0.0) and the estimate carries no error marker.          *)
(***************************************************************************)
KeyOr(outcome, key, value, default) == IF key \in outcome.keys THEN value ELSE default

C7_FallbackOnFailureOrNonObject ==
    TextAnalysed =>
        LET o == request.classifier
            est == analysis_result[1]
        IN  IF o.kind # "object"
            THEN IsFallback(est)
            ELSE /\ est.emotion = KeyOr(o, "emotion", o.emotion, "neutral")
                 /\ est.intensity = KeyOr(o, "intensity", o.intensity, 50)
                 /\ est.confidence = KeyOr(o, "confidence", o.confidence, 50)
                 /\ est.sentiment_score = KeyOr(o, "sentiment_score", o.sentiment_score, 0)
                 /\ ~est.metadata.error

C7_Witness ==
    /\ TextAnalysed
    /\ request.classifier.kind = "not_object"
    /\ IsFallback(analysis_result[1])
    /\ response = 201

(***************************************************************************)
(* C11 (as stated): session_id is optional: a valid submit_emotion request *)
(* that carries no session_id stores the observation with no session and   *)
(* no session_timestamp and succeeds.                                      *)
(***************************************************************************)
\* the last request was a submit that passed every validation
ValidSubmit ==
    /\ request # <<>>
    /\ request.kind = "submit"
    /\ request.has_content
    /\ request.source \in AnalysisSource
    /\ analysis_result # <<>>
    /\ analysis_result[1].emotion \in EmotionType

C11_NoSessionIdAccepted ==
    (ValidSubmit /\ request.session_id = 0) =>
        /\ response = 201
        /\ emotion_data # <<>>
        /\ emotion_data[Len(emotion_data)].session_id = 0
        /\ emotion_data[Len(emotion_data)].session_timestamp = None

(***************************************************************************)
(* C12 (as stated): an ingestion request with an input validation error is *)
(* never partially processed: a submit_emotion request or an emotion_update*)
(* message with an invalid emotion type or without a required field gets a *)
(* rejection and no observation of it is stored, the valid entries of a    *)
(* multi-emotion message included.                                         *)
(***************************************************************************)
\* a submit request without a required field or with an invalid emotion type
SubmitInvalid(req, est) ==
    \/ ~req.has_content
    \/ req.source = ""
    \/ req.source = "manual" /\ (req.emotion_type = "" \/ ~req.has_intensity)
    \/ est # <<>> /\ est[1].emotion \notin EmotionType

\* an emotion_update message without a required field
UpdateIncomplete(msg) ==
    msg.session_id = 0 \/ msg.user_id = 0 \/ msg.emotions = <<>> \/ msg.source = ""

KnownTypeIndices(emos) == {i \in 1..Len(emos) : emos[i].emotion_type \in EmotionType}

LastEvent(events) == events[Len(events)].event

C13_RatingAbsentOrOneToFive ==
    \A i \in 1..Len(ai_suggestions) :
        \/ ai_suggestions[i].effectiveness_rating = None
        \/ ai_suggestions[i].effectiveness_rating \in 1..5

(***************************************************************************)
(* C14: for a batch of 10 observations in which one user has 6 stressed    *)
(* observations whose mean intensity exceeds 0.8 and other users have the  *)
(* 4 remaining observations, all neutral, the result holds a team 'break'  *)
(* suggestion with priority 3 and a 'personal_break' suggestion with       *)
(* priority 3 and affected_users = [that user].                            *)
(***************************************************************************)
ObservationsOf(u) == SelectSeq(emotions, LAMBDA e : e.user_id = u)

\* u has 6 observations, all stressed, of mean intensity above 0.8, and the
\* 4 other observations of the batch are neutral
ScenarioOf(u) ==
    /\ Len(emotions) = 10
    /\ Len(ObservationsOf(u)) = 6
    /\ Len(StressedOf(u)) = 6
    /\ 10 * SumSeq(MapIntensity(StressedOf(u))) > 8 * 10 * 6
    /\ \A i \in 1..Len(emotions) :
          emotions[i].user_id # u => emotions[i].emotion_type = "neutral"

C14_ScenarioBreakAndPersonalBreak ==
    Analysed =>
        \A u \in BatchUsers :
            ScenarioOf(u) =>
                /\ \E i \in 1..Len(suggestions) :
                      /\ suggestions[i].type = "break"
                      /\ ~suggestions[i].is_personal
                      /\ suggestions[i].priority = 3
                /\ \E i \in 1..Len(suggestions) :
                      /\ suggestions[i].type = "personal_break"
                      /\ suggestions[i].is_personal
                      /\ suggestions[i].priority = 3
                      /\ suggestions[i].affected_users = <<u>>

C14_Witness ==
    /\ Analysed
    /\ ScenarioOf(1)
    /\ \E i, j \in 1..Len(emotions) :
          /\ emotions[i].user_id = 1 /\ emotions[i].intensity = 7
          /\ emotions[j].user_id = 1 /\ emotions[j].intensity = 9
    /\ emotions[1].emotion_type = "neutral"
    /\ HasTeam(suggestions, "break")
    /\ HasPersonal(suggestions, "personal_break")

(***************************************************************************)
(* C15: aggregating an empty batch never raises: _analyze_emotions on an   *)
(* empty list returns total, stress, negative and neutral counts 0,        *)
(* negative_percentage, low_energy_percentage, emotional_volatility and    *)
(* average_intensity 0, an empty per-user map and an empty                 *)
(* high_stress_users list, and analyze_and_suggest returns an empty list.  *)
(***************************************************************************)
\* r is the number 0, not the undefined quotient of an empty list
IsZero(r) == r.num = 0 /\ r.den # 0

C15_EmptyBatchAllZero ==
    (pc = "analysed" /\ emotions = <<>>) =>
        LET analysis == _analyze_emotions(emotions)
        IN  /\ analysis.total_emotions = 0
            /\ analysis.stress_count = 0
            /\ analysis.negative_count = 0
            /\ analysis.neutral_count = 0
            /\ IsZero(analysis.negative_percentage)
            /\ IsZero(analysis.low_energy_percentage)
            /\ IsZero(analysis.emotional_volatility)
            /\ IsZero(analysis.average_intensity)
            /\ DOMAIN analysis.user_metrics = {}
            /\ analysis.high_stress_users = <<>>
            /\ suggestions = <<>>

C15_Witness ==
    /\ pc = "analysed"
    /\ emotions = <<>>
    /\ suggestions = <<>>
    /\ _analyze_emotions(emotions).unique_users = 0

(***************************************************************************)
(* C16: generate_personal_reflection never raises on missing data: when    *)
(* the observation list is empty, or holds no observation of the given     *)
(* user, it returns a reflection with has_data = false and an explanatory  *)
(* message (for the empty list the message beginning 'Not enough emotion   *)
(* data'); has_data = true is returned only when the user has at least one *)
(* observation.                                                            *)
(***************************************************************************)
Reflected == reflection # <<>>

\* the number of observations of the user the reflection was asked for
ReflectedCount ==
    Cardinality({i \in 1..Len(emotions) : emotions[i].user_id = reflection[1].user_id})

C16_NoDataReflection ==
    Reflected =>
        LET r == reflection[1]
        IN  /\ r.has_data <=> ReflectedCount > 0
            /\ ~r.has_data => "message" \in DOMAIN r
            /\ emotions = <<>> =>
                  r.message = "Not enough emotion data was collected to generate a reflection."
            /\ (emotions # <<>> /\ ReflectedCount = 0) =>
                  r.message = "No emotion data was collected for this user."

C16_Witness ==
    /\ Reflected
    /\ emotions # <<>>
    /\ ReflectedCount = 0
    /\ ~reflection[1].has_data

(***************************************************************************)
(* C20: for every user with at least one observation, the per-emotion      *)
(* percentages of the reflection's emotion_distribution sum to 100 (the    *)
(* per-type counts sum to the user's observation count), and each listed   *)
(* emotion type has a percentage greater than 0.                           *)
(***************************************************************************)
RECURSIVE SumOver(_, _)
SumOver(f, S) ==
    IF S = {} THEN 0
    ELSE LET x == CHOOSE x \in S : TRUE IN f[x] + SumOver(f, S \ {x})

C20_DistributionSumsTo100 ==
    (Reflected /\ ReflectedCount > 0) =>
        LET dist == reflection[1].emotion_summary.emotion_distribution
            nums == [t \in DOMAIN dist |-> dist[t].num]
        IN  /\ \A t \in DOMAIN dist : dist[t].den = ReflectedCount
            /\ SumOver(nums, DOMAIN dist) = 100 * ReflectedCount
            /\ \A t \in DOMAIN dist : dist[t].num > 0
            /\ DOMAIN dist =
                  {emotions[i].emotion_type : i \in {j \in 1..Len(emotions) :
                      emotions[j].user_id = reflection[1].user_id}}

C20_Witness ==
    /\ Reflected
    /\ reflection[1].has_data
    /\ Cardinality(DOMAIN reflection[1].emotion_summary.emotion_distribution) = 2
    /\ ReflectedCount = 2
    /\ Len(emotions) = 3

(***************************************************************************)
(* C17: in no result of analyze_and_suggest do a 'break' and a 'breathing' *)
(* team suggestion occur together, neither among the generated candidates  *)
(* nor in the final list.                                                  *)
(***************************************************************************)
C17_BreakExcludesBreathing ==
    Analysed =>
        /\ ~(HasTeam(suggestions, "break") /\ HasTeam(suggestions, "breathing"))
        /\ LET cand == Candidates(emotions, clock)
           IN  ~(HasTeam(cand, "break") /\ HasTeam(cand, "breathing"))

C17_Witness ==
    /\ Analysed
    /\ HasTeam(suggestions, "break")
    /\ ~HasTeam(Candidates(emotions, clock), "breathing")
    /\ FractionAbove(3, 10)

(***************************************************************************)
(* C18: every EmotionData observation stored by submit_emotion or by the   *)
(* emotion_update socket handler has an emotion_type of the closed set of  *)
(* ten emotion types; an estimate whose emotion string is outside the set  *)
(* (from the caller or from the external classifier) never produces a      *)
(* stored observation.                                                     *)
(***************************************************************************)
\* the emotion strings the last request or message asked to store
OfferedTypes ==
    IF request = <<>> THEN {}
    ELSE IF request.kind = "submit"
    THEN IF analysis_result = <<>> THEN {} ELSE {analysis_result[1].emotion}
    ELSE {request.emotions[i].emotion_type : i \in 1..Len(request.emotions)}

C18_StoredTypeInEnum ==
    /\ [](\A i \in 1..Len(emotion_data) : emotion_data[i].emotion_type \in EmotionType)
    /\ [][(served' = served + 1) =>
            /\ Len(emotion_data') >= Len(emotion_data)
            /\ \A i \in (Len(emotion_data) + 1)..Len(emotion_data') :
                  emotion_data'[i].emotion_type \in OfferedTypes' \cap EmotionType
            /\ (OfferedTypes' \cap EmotionType = {}) => emotion_data' = emotion_data
       ]_vars

C18_Witness ==
    /\ request # <<>>
    /\ request.kind = "submit"
    /\ request.source = "text"
    /\ request.classifier.kind = "object"
    /\ "emotion" \notin request.classifier.keys
    /\ Len(emotion_data) = 1
    /\ emotion_data[1].emotion_type = "neutral"

(***************************************************************************)
(* C19: the engine keeps no state between invocations and has no side      *)
(* effect on its inputs: analyze_and_suggest and                           *)
(* generate_personal_reflection leave the observation collection they are  *)
(* given unchanged, so the result of an invocation does not depend on any  *)
(* earlier invocation: a second analyze_and_suggest on the batch, with or  *)
(* without a reflection in between, returns what the first returned, the   *)
(* timestamps apart.                                                       *)
(***************************************************************************)
\* the step is an invocation of the engine
Invocation ==
    \/ pc = "collect" /\ pc' \in {"analysed", "reflected"}
    \/ pc = "analysed" /\ pc' = "rerun"
    \/ reflection = <<>> /\ reflection' # <<>>

SquaredDeviations(xs) ==
    LET n == Len(xs)
        s == SumSeq(xs)
    IN  SumSeq([i \in 1..n |-> (n * xs[i] - s) * (n * xs[i] - s)])

\* v is the sum of the squared deviations of xs divided by divisor
IsVariance(v, xs, divisor) ==
    IF Len(xs) < 2 THEN IsZero(v)
    ELSE /\ v.den # 0
         /\ v.num * 100 * Len(xs) * Len(xs) * divisor = SquaredDeviations(xs) * v.den

\* every dispersion the engine reports on the batch, with its intensities
Dispersions ==
    LET analysis == _analyze_emotions(emotions)
    IN  {<<analysis.emotional_volatility, MapIntensity(emotions)>>}
        \cup {<<analysis.user_metrics[u].emotional_volatility,
                MapIntensity(ObservationsOf(u))>> : u \in DOMAIN analysis.user_metrics}
        \cup {<<reflection[1].emotion_summary.intensity_dispersion,
                MapIntensity(ObservationsOf(reflection[1].user_id))>>}

\* the claim as worded: the population standard deviation (divided by n)
C21_PopulationStdev ==
    (Reflected /\ ReflectedCount > 0) =>
        \A d \in Dispersions : IsVariance(d[1], d[2], Len(d[2]))

C21_SampleStdev ==
    (Reflected /\ ReflectedCount > 0) =>
        \A d \in Dispersions : IsVariance(d[1], d[2], Len(d[2]) - 1)

C21_Witness ==
    /\ Reflected
    /\ ReflectedCount = 2
    /\ Len(emotions) = 3
    /\ ~IsZero(reflection[1].emotion_summary.intensity_dispersion)
    /\ \E u \in Users : Len(ObservationsOf(u)) = 1

(***************************************************************************)
(* C22: for a user with n time-sorted observations, the reflection's trend *)
(* check runs only if n >= 3 and compares the number of negative (sad,     *)
(* angry, stressed) observations in the first third with that in the last  *)
(* third, the two segments having the same length floor(n/3): the          *)
(* 'improved' sentence is added iff the first count is greater, the        *)
(* 'declined' sentence iff it is smaller, and neither sentence when n < 3  *)
(* or the counts are equal.                                                *)
(***************************************************************************)
Has(s, x) == \E i \in 1..Len(s) : s[i] = x

HasData == Reflected /\ reflection[1].has_data

\* the negative observations among positions a..b of the time-sorted journey
NegativeIn(journey, a, b) ==
    Cardinality({i \in a..b : journey[i].emotion \in {"sad", "angry", "stressed"}})

C22_TrendComparesEqualThirds ==
    HasData =>
        LET journey == reflection[1].emotion_journey
            n == Len(journey)
            k == n \div 3
            first == NegativeIn(journey, 1, k)
            last == NegativeIn(journey, n - k + 1, n)
        IN  /\ Has(reflection[1].insights, improved_sentence) <=> (n >= 3 /\ first > last)
            /\ Has(reflection[1].insights, declined_sentence) <=> (n >= 3 /\ first < last)

(***************************************************************************)
(* C23: the reflection's action_items list is the first min(3, k) items,   *)
(* in generation order, of the sequence: the items of the dominant-emotion *)
(* branch (two for stressed, sad or angry; one for happy or neutral; none  *)
(* otherwise), then the mindfulness item if emotional_stability < 0.5,     *)
(* then the closing 'Set a personal goal' item; hence it has between 1 and *)
(* 3 items and the closing item is absent exactly when the dominant        *)
(* emotion is stressed, sad or angry and emotional_stability < 0.5.        *)
(***************************************************************************)
\* the number of items of the dominant-emotion branch
BranchItems(dominant_emotion) ==
    IF dominant_emotion \in {"stressed", "sad", "angry"} THEN 2
    ELSE IF dominant_emotion \in {"happy", "neutral"} THEN 1 ELSE 0

\* emotional_stability < 0.5, from the intensities of the reflected user
Unstable ==
    LET xs == MapIntensity(ObservationsOf(reflection[1].user_id))
        n == Len(xs)
    IN  n >= 2 /\ SquaredDeviations(xs) * 4 > 100 * n * n * (n - 1)

C23_ActionItemsCappedInOrder ==
    HasData =>
        LET items == reflection[1].action_items
            branch == BranchItems(reflection[1].emotion_summary.dominant_emotion)
            k == branch + (IF Unstable THEN 1 ELSE 0) + 1
            Special == {mindfulness_item, closing_item}
        IN  /\ Len(items) = IF k < 3 THEN k ELSE 3
            /\ Len(items) \in 1..3
            /\ \A i \in 1..branch : items[i] \notin Special
            /\ \A i \in 1..Len(items) : i > branch + 1 => items[i] = closing_item
            /\ Unstable <=> items[branch + 1] = mindfulness_item
            /\ ~Unstable <=> items[branch + 1] = closing_item
            /\ ~Has(items, closing_item) <=> (branch = 2 /\ Unstable)

C23_Witness ==
    /\ HasData
    /\ reflection[1].emotion_summary.dominant_emotion = "stressed"
    /\ Unstable
    /\ Len(reflection[1].action_items) = 3
    /\ ~Has(reflection[1].action_items, closing_item)

(***************************************************************************)
(* C24: the dominant emotion of a non-empty observation set, as computed   *)
(* by the aggregator per user and by generate_personal_reflection, is an   *)
(* emotion type with the maximal count in the set, and among types with    *)
(* equal maximal count it is the one whose first observation comes         *)
(* earliest in the input order of the set; on an empty set it is           *)
(* 'neutral'.                                                              *)
(***************************************************************************)
\* the position of the first observation of type t in ems
FirstObserved(ems, t) ==
    CHOOSE i \in 1..Len(ems) :
        /\ ems[i].emotion_type = t
        /\ \A j \in 1..(i - 1) : ems[j].emotion_type # t

IsDominant(ems, dominant) ==
    /\ \E i \in 1..Len(ems) : ems[i].emotion_type = dominant
    /\ \A i \in 1..Len(ems) :
          LET t == ems[i].emotion_type
          IN  \/ CountOf(ems, t) < CountOf(ems, dominant)
              \/ /\ CountOf(ems, t) = CountOf(ems, dominant)
                 /\ FirstObserved(ems, dominant) <= FirstObserved(ems, t)

C24_DominantIsFirstMaximal ==
    /\ emotions = <<>> => _get_dominant_emotion(emotions) = "neutral"
    /\ HasData =>
          /\ IsDominant(ObservationsOf(reflection[1].user_id),
                        reflection[1].emotion_summary.dominant_emotion)
          /\ LET metrics == _analyze_emotions(emotions).user_metrics
             IN  \A u \in DOMAIN metrics :
                    IsDominant(ObservationsOf(u), metrics[u].dominant_emotion)

\* three types tie; the first of the list is not the earliest in time
C24_Witness ==
    /\ HasData
    /\ ReflectedCount = 3
    /\ LET ems == ObservationsOf(reflection[1].user_id)
           dominant == reflection[1].emotion_summary.dominant_emotion
       IN  /\ ems[1].emotion_type # ems[2].emotion_type
           /\ ems[3].emotion_type \notin {ems[1].emotion_type, ems[2].emotion_type}
           /\ ems[1].timestamp > ems[2].timestamp
           /\ dominant = ems[1].emotion_type

(***************************************************************************)
(* C25: in the team reflection, the dominant_emotion reported for each     *)
(* participant who has observations in the session is the most frequently  *)
(* observed emotion type among that participant's observations in that     *)
(* session.                                                                *)
(***************************************************************************)
C25_TeamDominantIsMostFrequent ==
    (team_reflection # <<>> /\ response = 200) =>
        LET insights == team_reflection[1].participant_insights
        IN  \A i \in 1..Len(insights) :
               LET ems == ObservationsOf(insights[i].participant_id)
               IN  /\ \E j \in 1..Len(ems) : ems[j].emotion_type = insights[i].dominant_emotion
                   /\ \A j \in 1..Len(ems) :
                         CountOf(ems, ems[j].emotion_type)
                            <= CountOf(ems, insights[i].dominant_emotion)

(***************************************************************************)
(* C26: with emotional_stability = 1 - dispersion of the user's            *)
(* intensities, the reflection's insights contain the 'remained quite      *)
(* stable' sentence iff emotional_stability > 0.8 and the 'fluctuated      *)
(* significantly' sentence iff emotional_stability < 0.5, never both; for  *)
(* three observations with intensities 0.9, 0.8, 0.6 the stable sentence   *)
(* is present and the fluctuated one is not.                               *)
(***************************************************************************)
ReflectedIntensities == MapIntensity(ObservationsOf(reflection[1].user_id))

\* emotional_stability > 0.8: the dispersion is below 0.2
Stable ==
    LET xs == ReflectedIntensities
        n == Len(xs)
    IN  n < 2 \/ SquaredDeviations(xs) < 4 * n * n * (n - 1)

C26_StabilitySentences ==
    HasData =>
        LET insights == reflection[1].insights
        IN  /\ Has(insights, stable_sentence) <=> Stable
            /\ Has(insights, fluctuated_sentence) <=> Unstable
            /\ ~(Has(insights, stable_sentence) /\ Has(insights, fluctuated_sentence))
            /\ ReflectedIntensities = <<9, 8, 6>> =>
                  /\ Has(insights, stable_sentence)
                  /\ ~Has(insights, fluctuated_sentence)

C26_Witness ==
    /\ HasData
    /\ ReflectedIntensities = <<9, 8, 6>>
    /\ Has(reflection[1].insights, stable_sentence)

(***************************************************************************)
(* C27: analyze_facial is a total deterministic function of (smile,        *)
(* eyebrow_position, eye_openness), each defaulting to 0.5 when absent,    *)
(* with first-match precedence: smile > 0.7 gives happy; else              *)
(* eyebrow_position < 0.3 and eye_openness < 0.4 gives sad; else           *)
(* eyebrow_position < 0.2 gives angry; else neutral with intensity 0.5;    *)
(* confidence is 0.8 in every case, and with all features absent the       *)
(* result is neutral.                                                      *)
(***************************************************************************)
FacialClassified == analysis_result # <<>> /\ request.source = "facial"

\* the value of a feature of the request, in hundredths, 0.5 when absent
Given(name) == IF name \in DOMAIN request.features THEN request.features[name] ELSE 50

C27_FacialFirstMatch ==
    FacialClassified =>
        LET r == analysis_result[1]
            Happy == Given("smile") > 70
            Sad == Given("eyebrow_position") < 30 /\ Given("eye_openness") < 40
            Angry == Given("eyebrow_position") < 20
        IN  /\ r.emotion = "happy" <=> Happy
            /\ r.emotion = "sad" <=> (~Happy /\ Sad)
            /\ r.emotion = "angry" <=> (~Happy /\ ~Sad /\ Angry)
            /\ r.emotion = "neutral" <=> (~Happy /\ ~Sad /\ ~Angry)
            /\ r.emotion = "neutral" => r.intensity = 50
            /\ r.confidence = 80
            /\ DOMAIN request.features = {} => r.emotion = "neutral"

\* both the sad and the angry rule match, and smile is absent
C27_Witness ==
    /\ FacialClassified
    /\ DOMAIN request.features = {"eyebrow_position", "eye_openness"}
    /\ request.features["eyebrow_position"] = 10
    /\ request.features["eye_openness"] = 10
    /\ analysis_result[1].emotion = "sad"

(***************************************************************************)
(* C28: whenever the result of analyze_and_suggest contains a 'break'      *)
(* suggestion, its team part is exactly [break, discussion] in that order: *)
(* a stress fraction above 0.5 forces the negative fraction above 0.4, so  *)
(* 'discussion' (priority 3) is always generated with it, and the          *)
(* 'check_in' suggestion generated for the high-stress users is always     *)
(* dropped by the cap of 2.                                                *)
(***************************************************************************)
TeamTypes(res) == [i \in 1..Len(TeamPart(res)) |-> TeamPart(res)[i].type]

C28_BreakComesWithDiscussion ==
    (Analysed /\ HasTeam(suggestions, "break")) =>
        /\ TeamTypes(suggestions) = <<"break", "discussion">>
        /\ \A i \in 1..2 : TeamPart(suggestions)[i].priority = 3
        /\ 2 * Len(OfType(emotions, {"stressed"})) > Len(emotions)
        /\ 10 * Len(OfType(emotions, {"sad", "angry", "stressed"})) > 4 * Len(emotions)
        /\ HasTeam(Candidates(emotions, clock), "check_in")
        /\ ~HasTeam(suggestions, "check_in")

\* a break on a batch that is not stressed throughout
C28_Witness ==
    /\ Analysed
    /\ HasTeam(suggestions, "break")
    /\ Len(emotions) = 3
    /\ Len(OfType(emotions, {"stressed"})) = 2
    /\ Len(OfType(emotions, {"neutral"})) = 1

(***************************************************************************)
(* C29: a /generate request is all-or-nothing: if constructing or          *)
(* persisting any suggestion of the request fails, the request answers     *)
(* with an error, none of the request's suggestions is persisted (the      *)
(* suggestion store is as before the request), and no new_suggestions or   *)
(* new_personal_suggestions event is emitted for it.                       *)
(***************************************************************************)
\* the step is a /generate request
GenerateStep == pc = "collect" /\ pc' = "generated"

\* a suggestion of the request's result cannot be constructed as a row
ConstructionFails(result) ==
    \E i \in 1..Len(result) : result[i].type \notin SuggestionType

C29_GenerateAllOrNothing ==
    [][GenerateStep =>
        /\ response' = 201 =>
              /\ ~ConstructionFails(suggestions')
              /\ Len(ai_suggestions') = Len(ai_suggestions) + Len(suggestions')
        /\ response' # 201 => (ai_suggestions' = ai_suggestions /\ emitted' = emitted)]_vars

\* a failed request whose result starts with a row that could be stored
C29_Witness ==
    /\ pc = "generated"
    /\ response = 500
    /\ Len(suggestions) >= 2
    /\ suggestions[1].type \in SuggestionType
    /\ ConstructionFails(suggestions)
    /\ ai_suggestions = <<>>
    /\ emitted = <<>>

(***************************************************************************)
(* C30: under any sequence of respond_to_suggestion calls on a stored      *)
(* suggestion, its status is pending until the first call with a response  *)
(* in {accept, dismiss, implement}, becomes accepted, dismissed or         *)
(* implemented accordingly, and is never pending again afterwards; a call  *)
(* with any other response value, or for an unknown suggestion id, is      *)
(* rejected and leaves status, responded_at, responded_by, feedback and    *)
(* rating of every suggestion unchanged.                                   *)
(***************************************************************************)
\* the step is a respond_to_suggestion call
RespondStep == responses' = responses + 1

\* the call of the step names a stored suggestion and a response of the three
AcceptedCall ==
    /\ request'.suggestion_id \in 1..Len(ai_suggestions)
    /\ request'.response \in {"accept", "dismiss", "implement"}

ResponseFields(row) ==
    <<row.status, row.responded_at, row.responded_by, row.feedback_notes,
      row.effectiveness_rating>>

C30_StatusLeavesPendingOnce ==
    /\ [](\A i \in 1..Len(ai_suggestions) :
             ai_suggestions[i].status = "pending" <=> ai_suggestions[i].responded_by = None)
    /\ [][RespondStep =>
            /\ Len(ai_suggestions') = Len(ai_suggestions)
            /\ \A i \in 1..Len(ai_suggestions) :
                  ai_suggestions[i].status # "pending" => ai_suggestions'[i].status # "pending"
            /\ AcceptedCall =>
                  /\ response' = 200
                  /\ ai_suggestions'[request'.suggestion_id].status =
                        (CASE request'.response = "accept" -> "accepted"
                           [] request'.response = "dismiss" -> "dismissed"
                           [] request'.response = "implement" -> "implemented")
                  /\ \A i \in 1..Len(ai_suggestions) :
                        i # request'.suggestion_id => ai_suggestions'[i] = ai_suggestions[i]
            /\ ~AcceptedCall =>
                  /\ response' \in {400, 404}
                  /\ \A i \in 1..Len(ai_suggestions) :
                        ResponseFields(ai_suggestions'[i]) = ResponseFields(ai_suggestions[i])]_vars

\* a rejected call after an accepted one: the suggestion stays dismissed
C30_Witness ==
    /\ pc = "responded"
    /\ responses = 2
    /\ response = 400
    /\ request.response = "later"
    /\ ai_suggestions # <<>>
    /\ ai_suggestions[1].status = "dismissed"

====
